---------------------------- MODULE Spec2Model ----------------------------
(***************************************************************************)
(* A model of cmd/mapcidr/main.go: the orchestrator (main, which is also   *)
(* the Input Aggregator), the Transform Stage (goroutine process) and the  *)
(* Output Sink (goroutine output), connected by the two channels chancidr  *)
(* and outputchan and joined by a sync.WaitGroup.                          *)
(*                                                                         *)
(* Texts are TLA+ strings.  The address space is the four addresses        *)
(* 10.0.0.0 .. 10.0.0.3, an address being its offset 0..3 from 10.0.0.0,   *)
(* and a network a record [base, ones] (ones = prefix length, 30..32).     *)
(*                                                                         *)
(* gologger.Fatalf logs and calls os.Exit(1).  The step that detects a     *)
(* fatal condition and the exit are one action: the detecting step reads   *)
(* only the detecting unit's own locals, so it commutes with every step    *)
(* another unit could take between the detection and the exit.             *)
(*                                                                         *)
(* The run starts in ParseOptions with the flags parsed into options       *)
(* (a command line flag.Parse rejects yields no Options value and is no     *)
(* input of the model).  -silent only lowers gologger.MaxLevel, which       *)
(* gates the banner and the informational messages; the result records      *)
(* (gologger.Silentf) and Fatalf are not gated, so Silent is left out of    *)
(* options.                                                                 *)
(***************************************************************************)
EXTENDS Integers, Sequences, FiniteSets, TLC

\* Most lines the line-oriented sources (stdin and the file) hold together.
MaxLines == 2

\* Most records a stage standing in for process forwards (AnyResultSpec).
MaxRecords == 3

\* Faulty variant of ChanCidrCap: a channel with room for one descriptor.
ChanCidrCapBuffered == 0 + 1

\* Faulty variant of OutputChanCap: a channel with room for one record.
OutputChanCapBuffered == 0 + 1

\* make(chan string): both channels are created with no buffer (capacity 0).
ChanCidrCap == 0
OutputChanCap == 0

VARIABLES
  options,     \* the process-wide *Options: Slices, HostCount, Cidr, FileCidr, Output, Version
  env,         \* what the OS answers: stdin is a pipe, the file opens, the output file can be created
  mainPc,      \* position of main (the Aggregator)
  procPc,      \* position of goroutine process (the Transform Stage)
  sinkPc,      \* position of goroutine output (the Output Sink)
  cur,         \* main: scanner.Text() of the line just scanned
  scanned,     \* main: lines scanned so far (from stdin and the file together)
  lineNo,      \* main: lines the current scanner has returned (the line number of cur)
  chancidr,    \* channel 1: [buf, closed]
  outputchan,  \* channel 2: [buf, closed]
  cidr,        \* process: the loop variable cidr
  subnets,     \* process: the texts of the current result not yet forwarded
  o,           \* output: the loop variable o
  wg,          \* the WaitGroup counter
  stdout,      \* the lines written to the primary output (gologger.Silentf)
  fileOut,     \* the lines written to the output file (f.WriteString)
  exitStatus,  \* "none" while the process runs, then "zero" or "nonzero"
  fatalBy,     \* history: the Fatalf call that ended the process ("" if none)
  pushed,      \* history: descriptors whose send on chancidr completed, each
               \* [text, src, n]: the text, its source and its line number there
  drained,     \* history: the sources whose scan loop has ended
  taken,       \* history: descriptors process received from chancidr
  emitted,     \* history: records whose send on outputchan completed
  consumed,    \* history: records output received from outputchan
  results,     \* history: the result (texts) of each transformation call that returned without error
  doneCalls,   \* history: wg.Done() calls per unit
  readErr      \* history: a source's scan loop was ended by a read error, not by end of stream

vars == <<options, env, mainPc, procPc, sinkPc, cur, scanned, lineNo, chancidr, outputchan,
          cidr, subnets, o, wg, stdout, fileOut, exitStatus, fatalBy,
          pushed, drained, taken, emitted, consumed, results, doneCalls, readErr>>

mainVars == <<mainPc, cur, scanned, lineNo, drained, readErr>>
procVars == <<procPc, cidr, subnets, results>>
sinkVars == <<sinkPc, o, stdout, fileOut>>
histVars == <<pushed, taken, emitted, consumed>>

-----------------------------------------------------------------------------
(* Texts, addresses and networks *)

Addrs == 0..3
PrefixLens == 30..32

\* net.IP.String() of the address at offset a.
IPString(a) == "10.0.0." \o ToString(a)

\* Number of addresses of a network with prefix length ones.
AddressCount(ones) == 2^(32 - ones)

\* The network (IP masked by the prefix) that contains address a.
MaskedBase(a, ones) == a - (a % AddressCount(ones))

\* net.IPNet.String(): "<ip>/<ones>".
IPNetString(n) == IPString(n.base) \o "/" \o ToString(n.ones)

\* The descriptors the Aggregator's sources hold in the model: an empty line, a
\* token that is no CIDR, a two-address block and a one-address block.
Descriptors == {"", "not-a-cidr", "10.0.0.0/31", "10.0.0.2/32"}

\* net.ParseCIDR: "a.b.c.d/n" parses to the network holding the address; anything
\* else (the empty string included) is an error.
ParseCIDR(s) ==
  IF \E a \in Addrs, p \in PrefixLens : s = IPString(a) \o "/" \o ToString(p)
    THEN LET ap == CHOOSE ap \in Addrs \X PrefixLens :
                     s = IPString(ap[1]) \o "/" \o ToString(ap[2])
         IN  [err |-> FALSE, net |-> [base |-> MaskedBase(ap[1], ap[2]), ones |-> ap[2]]]
    ELSE [err |-> TRUE, net |-> [base |-> 0, ones |-> 32]]

Failed == [err |-> TRUE, out |-> <<>>]

\* The partition of network n into count blocks, each of prefix length ones.
Partition(n, count, ones) ==
  [k \in 1..count |-> [base |-> n.base + (k - 1) * AddressCount(ones), ones |-> ones]]

\* mapcidr.IPAddresses: every address of the network, ascending.
IPAddresses(s) ==
  LET p == ParseCIDR(s) IN
  IF p.err THEN Failed
  ELSE [err |-> FALSE,
        out |-> [k \in 1..AddressCount(p.net.ones) |-> IPString(p.net.base + k - 1)]]

\* mapcidr.SplitN: exactly n equal subnets covering the network, or an error
\* when the network cannot be split n ways.
SplitN(s, n) ==
  LET p == ParseCIDR(s) IN
  IF p.err THEN Failed
  ELSE IF n \in {1, 2, 4} /\ n <= AddressCount(p.net.ones)
    THEN LET ones == CHOOSE q \in PrefixLens :
                       AddressCount(q) * n = AddressCount(p.net.ones)
         IN  [err |-> FALSE, out |-> Partition(p.net, n, ones)]
    ELSE Failed

\* mapcidr.SplitByNumber: the partition into the smallest subnets that each
\* hold at least number addresses, or an error when the network is too small.
SplitByNumber(s, number) ==
  LET p == ParseCIDR(s) IN
  IF p.err THEN Failed
  ELSE IF number <= AddressCount(p.net.ones)
    THEN LET ones == CHOOSE q \in PrefixLens :
                       /\ AddressCount(q) >= number
                       /\ \A r \in PrefixLens : AddressCount(r) >= number => r <= q
         IN  [err |-> FALSE,
              out |-> Partition(p.net, AddressCount(p.net.ones) \div AddressCount(ones), ones)]
    ELSE Failed

\* subnet.String() over a returned slice, in the returned order (lines 155-157, 163-165).
SubnetStrings(nets) == [k \in 1..Len(nets) |-> IPNetString(nets[k])]

\* Faulty variant of Transform: a negative parameter counts as configured.
TransformNonZero(opts, c) ==
  IF opts.Slices # 0
    THEN LET r == SplitN(c, opts.Slices) IN [err |-> r.err, out |-> SubnetStrings(r.out)]
  ELSE IF opts.HostCount # 0
    THEN LET r == SplitByNumber(c, opts.HostCount) IN [err |-> r.err, out |-> SubnetStrings(r.out)]
  ELSE IPAddresses(c)

\* process, lines 150-174: the mode is chosen by the configuration alone; the
\* result is the error flag and the texts to forward, in order.
Transform(opts, c) ==
  IF opts.Slices > 0
    THEN LET r == SplitN(c, opts.Slices) IN [err |-> r.err, out |-> SubnetStrings(r.out)]
  ELSE IF opts.HostCount > 0
    THEN LET r == SplitByNumber(c, opts.HostCount) IN [err |-> r.err, out |-> SubnetStrings(r.out)]
  ELSE IPAddresses(c)

-----------------------------------------------------------------------------
(* Configuration *)

Params == {-1, 0, 2}

\* hasStdin(): standard input is a named pipe.
hasStdin == env.stdinPipe

\* Faulty variant of ConfigError: -cidr together with -l is let through.
ConfigErrorCidrAndList(opts) ==
  \/ opts.Cidr = "" /\ ~hasStdin /\ opts.FileCidr = ""
  \/ opts.Slices > 0 /\ opts.HostCount > 0

\* validateOptions, lines 74-86: the configuration errors.
ConfigError(opts) ==
  \/ opts.Cidr = "" /\ ~hasStdin /\ opts.FileCidr = ""
  \/ opts.Slices > 0 /\ opts.HostCount > 0
  \/ opts.Cidr # "" /\ opts.FileCidr # ""

Init ==
  /\ options \in [Slices : Params, HostCount : Params, Cidr : Descriptors,
                  FileCidr : {"", "list.txt"}, Output : {"", "out.txt"},
                  Version : BOOLEAN]
  /\ env \in [stdinPipe : BOOLEAN, fileOpens : BOOLEAN, createOk : BOOLEAN]
  /\ options.FileCidr = "" => env.fileOpens
  /\ options.Output = "" => env.createOk
  /\ mainPc = "parseOptions"
  /\ procPc = "notStarted"
  /\ sinkPc = "notStarted"
  /\ cur = ""
  /\ scanned = 0
  /\ lineNo = 0
  /\ chancidr = [buf |-> <<>>, closed |-> FALSE]
  /\ outputchan = [buf |-> <<>>, closed |-> FALSE]
  /\ cidr = ""
  /\ subnets = <<>>
  /\ o = ""
  /\ wg = 0
  /\ stdout = <<>>
  /\ fileOut = <<>>
  /\ exitStatus = "none"
  /\ fatalBy = ""
  /\ pushed = <<>>
  /\ drained = {}
  /\ taken = <<>>
  /\ emitted = <<>>
  /\ consumed = <<>>
  /\ results = <<>>
  /\ doneCalls = [u \in {"process", "output"} |-> 0]
  /\ readErr = FALSE

Running == exitStatus = "none"

\* gologger.Fatalf: os.Exit(1); nothing of the process runs afterwards.
Fatalf(who) ==
  /\ exitStatus' = "nonzero"
  /\ fatalBy' = who

NoExit == UNCHANGED <<exitStatus, fatalBy>>

-----------------------------------------------------------------------------
(* Channel operations.  A send completes at once when the receiver is parked
   in its receive and the buffer is empty (direct hand-off) or when the buffer
   has room; otherwise the sender blocks.  A receive takes the head of the
   buffer; on an empty buffer it ends the range loop if the channel is closed
   and blocks otherwise. *)

\* The receiver of chancidr is parked in `for cidr := range chancidr`.
ProcessReceiving == procPc = "recv" /\ chancidr.buf = <<>>

\* The receiver of outputchan is parked in `for o := range outputchan`.
OutputReceiving == sinkPc = "recv" /\ outputchan.buf = <<>>

\* Faulty variant of CloseChan: the channel is left open.
CloseChanForgotten(ch) == ch

\* close(ch), lines 138 and 177.
CloseChan(ch) == [ch EXCEPT !.closed = TRUE]

\* Faulty variant of RangeFirst: the loop takes the last element.
RangeFirstLast(s) == s[Len(s)]

\* `for _, subnet := range subnets`: the element the loop takes next and what is
\* left for the later iterations (lines 155, 163, 171).
RangeFirst(s) == Head(s)
RangeRest(s) == Tail(s)

\* Faulty variant of AfterForward: the range loop over the result is left early.
AfterForwardEarly(rest) == "recv"

\* Where process goes once rest is what is left of the result to forward.
AfterForward(rest) == IF rest = <<>> THEN "recv" ELSE "forward"

\* Faulty variant of SourceOrder: the file is read before stdin.
SourceOrderFileFirst == <<"cidr", "file", "stdin">>

\* The sources in the order main consults them: lines 115, 119, 126.
SourceOrder == <<"cidr", "stdin", "file">>

\* Faulty variant of AfterSource: main closes the channel right after stdin.
AfterSourceSkipsFile(src) == IF src = "cidr" THEN "stdin" ELSE "close"

\* Where main goes when it is done with source src: the next source, or
\* close(chancidr) after the last one.
AfterSource(src) ==
  LET i == CHOOSE k \in 1..Len(SourceOrder) : SourceOrder[k] = src
  IN  IF i = Len(SourceOrder) THEN "close" ELSE SourceOrder[i + 1]

\* chancidr <- v (lines 116, 122, 134), v being line n of source src; main
\* continues at np.
SendCidr(v, src, n, np) ==
  /\ ~chancidr.closed
  /\ IF ProcessReceiving
       THEN /\ cidr' = v
            /\ procPc' = "parse"
            /\ taken' = Append(taken, v)
            /\ UNCHANGED chancidr
       ELSE /\ Len(chancidr.buf) < ChanCidrCap
            /\ chancidr' = [chancidr EXCEPT !.buf = Append(@, v)]
            /\ UNCHANGED <<cidr, procPc, taken>>
  /\ pushed' = Append(pushed, [text |-> v, src |-> src, n |-> n])
  /\ mainPc' = np

\* outputchan <- v (lines 156, 164, 172); process continues at np.
SendOutput(v, np) ==
  /\ ~outputchan.closed
  /\ IF OutputReceiving
       THEN /\ o' = v
            /\ sinkPc' = "write"
            /\ consumed' = Append(consumed, v)
            /\ UNCHANGED outputchan
       ELSE /\ Len(outputchan.buf) < OutputChanCap
            /\ outputchan' = [outputchan EXCEPT !.buf = Append(@, v)]
            /\ UNCHANGED <<o, sinkPc, consumed>>
  /\ emitted' = Append(emitted, v)
  /\ procPc' = np

-----------------------------------------------------------------------------
(* main: ParseOptions' validation, then the Aggregator *)

\* ParseOptions after flag.Parse, lines 61-68: with -version the version is
\* printed and the process exits with status 0 (os.Exit(0), line 67) before
\* validateOptions is called.
MainParseOptions ==
  /\ Running /\ mainPc = "parseOptions"
  /\ IF options.Version
       THEN exitStatus' = "zero" /\ UNCHANGED <<mainPc, fatalBy>>
       ELSE mainPc' = "validate" /\ NoExit
  /\ UNCHANGED <<options, env, procPc, sinkPc, cur, scanned, lineNo, drained, chancidr, outputchan, cidr,
                 subnets, o, wg, stdout, fileOut, histVars, results, doneCalls, readErr>>

\* options.validateOptions(), lines 70, 74-86.
MainValidate ==
  /\ Running /\ mainPc = "validate"
  /\ IF ConfigError(options)
       THEN Fatalf("validateOptions") /\ UNCHANGED mainPc
       ELSE mainPc' = "goProcess" /\ NoExit
  /\ UNCHANGED <<options, env, procPc, sinkPc, cur, scanned, lineNo, drained, chancidr, outputchan, cidr,
                 subnets, o, wg, stdout, fileOut, histVars, results, doneCalls, readErr>>

\* wg.Add(1); go process(...), lines 110-111.
MainGoProcess ==
  /\ Running /\ mainPc = "goProcess"
  /\ wg' = wg + 1
  /\ procPc' = "recv"
  /\ mainPc' = "goOutput"
  /\ UNCHANGED <<options, env, sinkPc, cur, scanned, lineNo, drained, chancidr, outputchan, cidr, subnets, o,
                 stdout, fileOut, exitStatus, fatalBy, histVars, results, doneCalls, readErr>>

\* wg.Add(1); go output(...), lines 112-113.
MainGoOutput ==
  /\ Running /\ mainPc = "goOutput"
  /\ wg' = wg + 1
  /\ sinkPc' = "create"
  /\ mainPc' = SourceOrder[1]
  /\ UNCHANGED <<options, env, procPc, cur, scanned, lineNo, drained, chancidr, outputchan, cidr, subnets, o,
                 stdout, fileOut, exitStatus, fatalBy, histVars, results, doneCalls, readErr>>

\* if options.Cidr != "" { chancidr <- options.Cidr }, lines 115-117.
MainCidr ==
  /\ Running /\ mainPc = "cidr"
  /\ IF options.Cidr # ""
       THEN SendCidr(options.Cidr, "cidr", 1, AfterSource("cidr"))
       ELSE mainPc' = AfterSource("cidr") /\ UNCHANGED <<chancidr, cidr, procPc, pushed, taken>>
  /\ UNCHANGED <<options, env, sinkPc, cur, scanned, lineNo, drained, outputchan, subnets, o, wg, stdout,
                 fileOut, exitStatus, fatalBy, emitted, consumed, results, doneCalls, readErr>>

\* if hasStdin() { scanner := bufio.NewScanner(os.Stdin) ... }, lines 119-120.
MainStdin ==
  /\ Running /\ mainPc = "stdin"
  /\ mainPc' = IF hasStdin THEN "scanStdin" ELSE AfterSource("stdin")
  /\ lineNo' = 0
  /\ UNCHANGED <<options, env, procPc, sinkPc, cur, scanned, drained, chancidr, outputchan, cidr, subnets, o,
                 wg, stdout, fileOut, exitStatus, fatalBy, histVars, results, doneCalls, readErr>>

\* scanner.Scan() at the loop head over source src: the next line, or false at
\* end of stream or on a read error (scanner.Err() is never looked at); the
\* loop then ends.
Scan(src, sendPc) ==
  \/ /\ scanned < MaxLines
     /\ \E line \in Descriptors : cur' = line
     /\ scanned' = scanned + 1
     /\ lineNo' = lineNo + 1
     /\ mainPc' = sendPc
     /\ UNCHANGED <<readErr, drained>>
  \/ /\ \E failed \in BOOLEAN : readErr' = (readErr \/ failed)
     /\ drained' = drained \cup {src}
     /\ mainPc' = AfterSource(src)
     /\ UNCHANGED <<cur, scanned, lineNo>>

\* for scanner.Scan() over os.Stdin, line 121.
MainScanStdin ==
  /\ Running /\ mainPc = "scanStdin"
  /\ Scan("stdin", "sendStdin")
  /\ UNCHANGED <<options, env, procPc, sinkPc, chancidr, outputchan, cidr, subnets, o,
                 wg, stdout, fileOut, exitStatus, fatalBy, histVars, results, doneCalls>>

\* chancidr <- scanner.Text(), line 122.
MainSendStdin ==
  /\ Running /\ mainPc = "sendStdin"
  /\ SendCidr(cur, "stdin", lineNo, "scanStdin")
  /\ UNCHANGED <<options, env, sinkPc, cur, scanned, lineNo, drained, outputchan, subnets, o, wg, stdout,
                 fileOut, exitStatus, fatalBy, emitted, consumed, results, doneCalls, readErr>>

\* if options.FileCidr != "" { file, err := os.Open(...) ... }, lines 126-132.
MainOpenFile ==
  /\ Running /\ mainPc = "file"
  /\ IF options.FileCidr = ""
       THEN mainPc' = AfterSource("file") /\ NoExit
       ELSE IF ~env.fileOpens
         THEN Fatalf("os.Open") /\ UNCHANGED mainPc
         ELSE mainPc' = "scanFile" /\ NoExit
  /\ lineNo' = 0
  /\ UNCHANGED <<options, env, procPc, sinkPc, cur, scanned, drained, chancidr, outputchan, cidr, subnets, o,
                 wg, stdout, fileOut, histVars, results, doneCalls, readErr>>

\* for scanner.Scan() over the file, line 133.
MainScanFile ==
  /\ Running /\ mainPc = "scanFile"
  /\ Scan("file", "sendFile")
  /\ UNCHANGED <<options, env, procPc, sinkPc, chancidr, outputchan, cidr, subnets, o,
                 wg, stdout, fileOut, exitStatus, fatalBy, histVars, results, doneCalls>>

\* chancidr <- scanner.Text(), line 134.
MainSendFile ==
  /\ Running /\ mainPc = "sendFile"
  /\ SendCidr(cur, "file", lineNo, "scanFile")
  /\ UNCHANGED <<options, env, sinkPc, cur, scanned, lineNo, drained, outputchan, subnets, o, wg, stdout,
                 fileOut, exitStatus, fatalBy, emitted, consumed, results, doneCalls, readErr>>

\* close(chancidr), line 138.
MainClose ==
  /\ Running /\ mainPc = "close"
  /\ chancidr' = CloseChan(chancidr)
  /\ mainPc' = "wait"
  /\ UNCHANGED <<options, env, procPc, sinkPc, cur, scanned, lineNo, drained, outputchan, cidr, subnets, o,
                 wg, stdout, fileOut, exitStatus, fatalBy, histVars, results, doneCalls, readErr>>

\* Faulty variant of WaitReturns: one unit still running is not waited for.
WaitReturnsEarly(counter) == counter <= 1

\* wg.Wait() blocks until the WaitGroup counter is zero, line 140.
WaitReturns(counter) == counter = 0

\* wg.Wait() returns; main returns and the process exits with status 0,
\* lines 140-141.
MainWait ==
  /\ Running /\ mainPc = "wait"
  /\ WaitReturns(wg)
  /\ mainPc' = "returned"
  /\ exitStatus' = "zero"
  /\ UNCHANGED <<options, env, procPc, sinkPc, cur, scanned, lineNo, drained, chancidr, outputchan, cidr,
                 subnets, o, wg, stdout, fileOut, fatalBy, histVars, results, doneCalls, readErr>>

-----------------------------------------------------------------------------
(* process: the Transform Stage *)

\* for cidr := range chancidr, line 145, when main is not handing a value over:
\* take the head of the buffer, or leave the loop when the channel is closed.
ProcRecv ==
  /\ Running /\ procPc = "recv"
  /\ IF chancidr.buf # <<>>
       THEN /\ cidr' = Head(chancidr.buf)
            /\ chancidr' = [chancidr EXCEPT !.buf = Tail(@)]
            /\ taken' = Append(taken, Head(chancidr.buf))
            /\ procPc' = "parse"
       ELSE /\ chancidr.closed
            /\ procPc' = "close"
            /\ UNCHANGED <<cidr, chancidr, taken>>
  /\ UNCHANGED <<options, env, mainVars, sinkVars, outputchan, subnets, wg, exitStatus,
                 fatalBy, pushed, emitted, consumed, results, doneCalls>>

\* if _, _, err := net.ParseCIDR(cidr); err != nil { Fatalf }, lines 147-149.
ProcParse ==
  /\ Running /\ procPc = "parse"
  /\ IF ParseCIDR(cidr).err
       THEN Fatalf("net.ParseCIDR") /\ UNCHANGED procPc
       ELSE procPc' = "transform" /\ NoExit
  /\ UNCHANGED <<options, env, mainVars, sinkVars, chancidr, outputchan, cidr, subnets, wg,
                 histVars, results, doneCalls>>

\* Faulty variant of TransformFailed: the error is not looked at.
TransformFailedIgnored(r) == FALSE

\* if err != nil after a transformation call, lines 152, 160, 168.
TransformFailed(r) == r.err

\* The transformation call of the configured mode and its error check,
\* lines 150-154, 158-162, 166-170.
ProcTransform ==
  /\ Running /\ procPc = "transform"
  /\ LET r == Transform(options, cidr) IN
     IF TransformFailed(r)
       THEN Fatalf("transformation") /\ UNCHANGED <<procPc, subnets, results>>
       ELSE /\ subnets' = r.out
            /\ results' = Append(results, r.out)
            /\ procPc' = AfterForward(r.out)
            /\ NoExit
  /\ UNCHANGED <<options, env, mainVars, sinkVars, chancidr, outputchan, cidr, wg,
                 histVars, doneCalls>>

\* One iteration of the range loop over the result: outputchan <- text,
\* lines 155-157, 163-165, 171-173.
ProcForward ==
  /\ Running /\ procPc = "forward"
  /\ SendOutput(RangeFirst(subnets), AfterForward(RangeRest(subnets)))
  /\ subnets' = RangeRest(subnets)
  /\ UNCHANGED <<options, env, mainVars, chancidr, cidr, results, wg, stdout, fileOut,
                 exitStatus, fatalBy, pushed, taken, doneCalls>>

\* close(outputchan), line 177.
ProcClose ==
  /\ Running /\ procPc = "close"
  /\ outputchan' = CloseChan(outputchan)
  /\ procPc' = "done"
  /\ UNCHANGED <<options, env, mainVars, sinkVars, chancidr, cidr, subnets, results, wg,
                 exitStatus, fatalBy, histVars, doneCalls>>

\* defer wg.Done(), line 144, run as process returns.
ProcDone ==
  /\ Running /\ procPc = "done"
  /\ wg' = wg - 1
  /\ doneCalls' = [doneCalls EXCEPT !["process"] = @ + 1]
  /\ procPc' = "returned"
  /\ UNCHANGED <<options, env, mainVars, sinkVars, chancidr, outputchan, cidr, subnets,
                 results, exitStatus, fatalBy, histVars>>

-----------------------------------------------------------------------------
(* output: the Output Sink *)

\* Faulty variant of SinkCreate: the error of os.Create is not looked at.
SinkCreateUnchecked ==
  /\ Running /\ sinkPc = "create"
  /\ sinkPc' = "recv" /\ NoExit
  /\ UNCHANGED <<options, env, mainVars, procVars, chancidr, outputchan, o, wg, stdout,
                 fileOut, histVars, doneCalls>>

\* Lines 183-191: create the output file if one is configured.
SinkCreate ==
  /\ Running /\ sinkPc = "create"
  /\ IF options.Output # "" /\ ~env.createOk
       THEN Fatalf("os.Create") /\ UNCHANGED sinkPc
       ELSE sinkPc' = "recv" /\ NoExit
  /\ UNCHANGED <<options, env, mainVars, procVars, chancidr, outputchan, o, wg, stdout,
                 fileOut, histVars, doneCalls>>

\* for o := range outputchan, line 192, when process is not handing a value
\* over: take the head of the buffer, or leave the loop when the channel is closed.
SinkRecv ==
  /\ Running /\ sinkPc = "recv"
  /\ IF outputchan.buf # <<>>
       THEN /\ o' = Head(outputchan.buf)
            /\ outputchan' = [outputchan EXCEPT !.buf = Tail(@)]
            /\ consumed' = Append(consumed, Head(outputchan.buf))
            /\ sinkPc' = "write"
       ELSE /\ outputchan.closed
            /\ sinkPc' = "done"
            /\ UNCHANGED <<o, outputchan, consumed>>
  /\ UNCHANGED <<options, env, mainVars, procVars, chancidr, wg, stdout, fileOut,
                 exitStatus, fatalBy, pushed, taken, emitted, doneCalls>>

\* The bytes one record is written as: "%s\n" of gologger.Silentf, line 196,
\* and o + "\n" of f.WriteString, line 198.
Line(s) == s \o "\n"

\* Faulty variant of SkipRecord: no record is skipped.
SkipRecordNever(rec) == FALSE

\* Faulty variant of SkipRecord: every record is skipped.
SkipRecordAlways(rec) == TRUE

\* if o == "" { continue }, lines 193-195.
SkipRecord(rec) == rec = ""

\* if o == "" { continue }; gologger.Silentf("%s\n", o); if f != nil, lines 193-197.
SinkWrite ==
  /\ Running /\ sinkPc = "write"
  /\ IF SkipRecord(o)
       THEN sinkPc' = "recv" /\ UNCHANGED stdout
       ELSE /\ stdout' = Append(stdout, Line(o))
            /\ sinkPc' = IF options.Output # "" THEN "tee" ELSE "recv"
  /\ UNCHANGED <<options, env, mainVars, procVars, chancidr, outputchan, o, wg, fileOut,
                 exitStatus, fatalBy, histVars, doneCalls>>

\* Faulty variant of SinkTee: the record is not appended to the file.
SinkTeeDropped ==
  /\ Running /\ sinkPc = "tee"
  /\ sinkPc' = "recv"
  /\ UNCHANGED <<options, env, mainVars, procVars, chancidr, outputchan, o, wg, stdout,
                 fileOut, exitStatus, fatalBy, histVars, doneCalls>>

\* f.WriteString(o + "\n"), line 198 (f != nil exactly when a file is configured).
SinkTee ==
  /\ Running /\ sinkPc = "tee"
  /\ fileOut' = Append(fileOut, Line(o))
  /\ sinkPc' = "recv"
  /\ UNCHANGED <<options, env, mainVars, procVars, chancidr, outputchan, o, wg, stdout,
                 exitStatus, fatalBy, histVars, doneCalls>>

\* defer f.Close(); defer wg.Done(), lines 181, 190, run as output returns.
SinkDone ==
  /\ Running /\ sinkPc = "done"
  /\ wg' = wg - 1
  /\ doneCalls' = [doneCalls EXCEPT !["output"] = @ + 1]
  /\ sinkPc' = "returned"
  /\ UNCHANGED <<options, env, mainVars, procVars, chancidr, outputchan, o, stdout,
                 fileOut, exitStatus, fatalBy, histVars>>

-----------------------------------------------------------------------------
(* The specifications *)

MainStep ==
  \/ MainParseOptions \/ MainValidate \/ MainGoProcess \/ MainGoOutput \/ MainCidr \/ MainStdin
  \/ MainScanStdin \/ MainSendStdin \/ MainOpenFile \/ MainScanFile \/ MainSendFile
  \/ MainClose \/ MainWait

ProcStep ==
  \/ ProcRecv \/ ProcParse \/ ProcTransform \/ ProcForward \/ ProcClose \/ ProcDone

SinkStep ==
  \/ SinkCreate \/ SinkRecv \/ SinkWrite \/ SinkTee \/ SinkDone

Next == MainStep \/ ProcStep \/ SinkStep

Spec == Init /\ [][Next]_vars

\* The Go scheduler never idles while a goroutine can run: as long as some unit
\* can take a step, a step is taken.  (Every unit's run is finite, so this is
\* all the fairness termination needs.)
FairSpec == Init /\ [][Next]_vars /\ WF_vars(Next)

-----------------------------------------------------------------------------
(* The Output Sink under any producer.  output (lines 180-201) takes whatever
   strings arrive on outputchan, a chan string.  Here process is replaced by
   a stage that forwards any texts, the empty text included, and then closes
   outputchan as process does; main has found its sources empty, closed
   chancidr and waits; output is the code's. *)

\* The texts such a stage forwards: the empty text, an address, a subnet.
Records == {"", "10.0.0.0", "10.0.0.0/31"}

AnyResultInit ==
  /\ options \in [Slices : {0}, HostCount : {0}, Cidr : {""},
                  FileCidr : {""}, Output : {"", "out.txt"}, Version : {FALSE}]
  /\ env \in [stdinPipe : {TRUE}, fileOpens : {TRUE}, createOk : BOOLEAN]
  /\ options.Output = "" => env.createOk
  /\ mainPc = "wait"
  /\ procPc = "producer"
  /\ sinkPc = "create"
  /\ cur = ""
  /\ scanned = 0
  /\ lineNo = 0
  /\ chancidr = [buf |-> <<>>, closed |-> TRUE]
  /\ outputchan = [buf |-> <<>>, closed |-> FALSE]
  /\ cidr = ""
  /\ subnets = <<>>
  /\ o = ""
  /\ wg = 2
  /\ stdout = <<>>
  /\ fileOut = <<>>
  /\ exitStatus = "none"
  /\ fatalBy = ""
  /\ pushed = <<>>
  /\ drained = {"stdin"}
  /\ taken = <<>>
  /\ emitted = <<>>
  /\ consumed = <<>>
  /\ results = <<>>
  /\ doneCalls = [u \in {"process", "output"} |-> 0]
  /\ readErr = FALSE

\* outputchan <- rec, for any text rec.
ProducerSend ==
  /\ Running /\ procPc = "producer"
  /\ Len(emitted) < MaxRecords
  /\ \E rec \in Records : SendOutput(rec, "producer")
  /\ UNCHANGED <<options, env, mainVars, chancidr, cidr, subnets, results, wg, stdout, fileOut,
                 exitStatus, fatalBy, pushed, taken, doneCalls>>

\* close(outputchan), as at line 177; the stage then returns as process does.
ProducerClose ==
  /\ Running /\ procPc = "producer"
  /\ outputchan' = CloseChan(outputchan)
  /\ procPc' = "done"
  /\ UNCHANGED <<options, env, mainVars, sinkVars, chancidr, cidr, subnets, results, wg,
                 exitStatus, fatalBy, histVars, doneCalls>>

\* The pipeline as it is, and the pipeline with process replaced.
AnyResultSpec ==
  (Init \/ AnyResultInit) /\ [][Next \/ ProducerSend \/ ProducerClose]_vars

-----------------------------------------------------------------------------
(* What the claims speak of *)

\* The texts of a sequence of pushed descriptors.
Texts(p) == [k \in 1..Len(p) |-> p[k].text]

IsPrefix(a, b) == Len(a) <= Len(b) /\ a = SubSeq(b, 1, Len(a))

\* Descriptor d is one the Transform Stage ends the process on.
Fails(d) == ParseCIDR(d).err \/ Transform(options, d).err

\* The result records of descriptor d, in the order the transformation returns them.
ResultOf(d) == IF Fails(d) THEN <<>> ELSE Transform(options, d).out

RECURSIVE Concat(_)
Concat(ss) == IF ss = <<>> THEN <<>> ELSE Head(ss) \o Concat(Tail(ss))

\* The concatenation of the results of the descriptors ds, in the order of ds.
ExpectedRecords(ds) == Concat([k \in 1..Len(ds) |-> ResultOf(ds[k])])

\* The records rs as newline-terminated lines.
AsLines(rs) == [k \in 1..Len(rs) |-> rs[k] \o "\n"]

\* The descriptors of ds before the first failing one (all of ds if none fails).
BeforeFailure(ds) ==
  IF \E k \in 1..Len(ds) : Fails(ds[k])
    THEN SubSeq(ds, 1, (CHOOSE k \in 1..Len(ds) :
                          Fails(ds[k]) /\ \A j \in 1..(k - 1) : ~Fails(ds[j])) - 1)
    ELSE ds

\* The run is one with -version: ParseOptions exits with status 0 at line 67,
\* before validateOptions and before the pipeline exists.
VersionRun ==
  /\ options.Version
  /\ mainPc = "parseOptions" /\ procPc = "notStarted" /\ sinkPc = "notStarted"
  /\ wg = 0 /\ scanned = 0 /\ pushed = <<>> /\ emitted = <<>>
  /\ stdout = <<>> /\ fileOut = <<>>
  /\ exitStatus # "nonzero"

\* main holds a scanned line (or the -cidr value) that it has not pushed yet.
MainHolds ==
  \/ mainPc \in {"sendStdin", "sendFile"}
  \/ mainPc = "cidr" /\ options.Cidr # ""

\* A fatal condition is present in what the run was given: the configuration is
\* rejected, the file source does not open, the output file cannot be created,
\* or a descriptor read so far fails to parse or to transform.
FatalConditionGiven ==
  \/ ConfigError(options)
  \/ ~env.fileOpens
  \/ ~env.createOk
  \/ Fails(options.Cidr) /\ options.Cidr # ""
  \/ \E k \in 1..Len(pushed) : Fails(pushed[k].text)
  \/ mainPc \in {"sendStdin", "sendFile"} /\ Fails(cur)

-----------------------------------------------------------------------------
(* C1: when nothing fatal is given (every descriptor parses and transforms, the
   sources open, the output file can be created), every fair run ends with
   exit status 0, and it does so through the cascade: chancidr is closed before
   process has forwarded everything and closes outputchan, outputchan is
   closed before output returns, and both have returned when wg.Wait() lets
   main return.  The only other exit with status 0 is that of a run with
   -version, which never starts the pipeline. *)
CascadeOrder ==
  /\ outputchan.closed => chancidr.closed /\ subnets = <<>> /\ procPc \in {"done", "returned"}
  /\ sinkPc \in {"done", "returned"} => outputchan.closed /\ emitted = consumed
  /\ options.Version => VersionRun
  /\ exitStatus = "zero" /\ ~options.Version =>
       mainPc = "returned" /\ procPc = "returned" /\ sinkPc = "returned"
C1_CascadeTerminates ==
  /\ <>(exitStatus = "zero" \/ FatalConditionGiven)
  /\ [](exitStatus = "nonzero" => FatalConditionGiven)
  /\ []CascadeOrder
C1_Witness ==
  /\ exitStatus = "zero"
  /\ Len(pushed) = 3
  /\ options.Output # ""
  /\ Len(stdout) >= 4

-----------------------------------------------------------------------------
(* C2: end-to-end ordering.  In every reachable state the lines written to the
   primary output are a prefix of the concatenation, over the descriptors in
   the order the Aggregator pushed them, of each descriptor's result in the
   order the transformation returned it; and no stage reorders on the way:
   what process took is a prefix of what main pushed, what it forwarded is a
   prefix of the results of what it took, what output received is a prefix of
   that, and what output wrote is a prefix of what it received. *)
C2_OrderPreserved ==
  /\ IsPrefix(taken, Texts(pushed))
  /\ IsPrefix(emitted, ExpectedRecords(taken))
  /\ IsPrefix(consumed, emitted)
  /\ IsPrefix(stdout, AsLines(consumed))
  /\ IsPrefix(stdout, AsLines(ExpectedRecords(Texts(pushed))))
C2_Witness ==
  /\ Len(pushed) >= 2
  /\ pushed[1].text # pushed[2].text
  /\ Len(ResultOf(pushed[1].text)) >= 2
  /\ Len(ResultOf(pushed[2].text)) >= 1
  /\ stdout = AsLines(ExpectedRecords(Texts(pushed)))

(* C3: exactly-once delivery.  Every descriptor pushed is, in every state,
   either already taken by process or still in chancidr, once; every record
   forwarded is either already received by output or still in outputchan,
   once; and when the process exits with status 0 (a pipeline run: the exit
   of a run with -version comes before any input) every descriptor read was
   pushed and taken, one transformation ran per descriptor, and every
   non-empty record of every descriptor (duplicates each counted) is on the
   primary output exactly once. *)
C3_ExactlyOnce ==
  /\ Texts(pushed) = taken \o chancidr.buf
  /\ emitted = consumed \o outputchan.buf
  /\ options.Version => VersionRun
  /\ exitStatus = "zero" /\ ~options.Version =>
       /\ Len(pushed) = scanned + (IF options.Cidr # "" THEN 1 ELSE 0)
       /\ taken = Texts(pushed)
       /\ results = [k \in 1..Len(taken) |-> ResultOf(taken[k])]
       /\ emitted = ExpectedRecords(taken)
       /\ consumed = emitted
       /\ stdout = AsLines(SelectSeq(ExpectedRecords(Texts(pushed)), LAMBDA r : r # ""))
C3_Witness ==
  /\ exitStatus = "zero"
  /\ Len(pushed) >= 2
  /\ pushed[1].text = pushed[2].text
  /\ Len(stdout) = Len(pushed) * Len(ResultOf(pushed[1].text))
  /\ Len(stdout) >= 4

(* C4: the join barrier.  The process exits through main's return (status 0)
   only when process and output have both returned, and the only exit with
   status 0 that is not main's return is that of a run with -version, in
   which neither unit was started; each of them calls
   wg.Done() at most once, exactly once when it has returned, and the counter
   is the number of started units that have not called it. *)
C4_JoinBarrier ==
  /\ \A u \in DOMAIN doneCalls : doneCalls[u] <= 1
  /\ doneCalls["process"] = (IF procPc = "returned" THEN 1 ELSE 0)
  /\ doneCalls["output"] = (IF sinkPc = "returned" THEN 1 ELSE 0)
  /\ wg = (IF procPc = "notStarted" THEN 0 ELSE 1) + (IF sinkPc = "notStarted" THEN 0 ELSE 1)
          - doneCalls["process"] - doneCalls["output"]
  /\ mainPc = "returned" <=> (exitStatus = "zero" /\ ~options.Version)
  /\ options.Version => VersionRun
  /\ mainPc = "returned" =>
       /\ procPc = "returned" /\ sinkPc = "returned"
       /\ doneCalls["process"] = 1 /\ doneCalls["output"] = 1
C4_Witness ==
  /\ exitStatus = "zero"
  /\ mainPc = "returned"
  /\ doneCalls["process"] = 1 /\ doneCalls["output"] = 1
  /\ stdout # <<>>

(* C5: fail-fast.  Once process has taken a descriptor that fails to parse or
   to transform, that descriptor is the last one it ever takes, parses or
   transforms; everything forwarded or written belongs to the descriptors
   before it (nothing for it or for a later one); the process never exits
   with status 0; and the step of process that detects the failure is the
   non-zero exit itself. *)
TakenFailing == \E k \in 1..Len(taken) : Fails(taken[k])
C5_FailFastState ==
  \A k \in 1..Len(taken) : Fails(taken[k]) =>
    /\ k = Len(taken)
    /\ cidr = taken[k]
    /\ procPc \in {"parse", "transform"}
    /\ subnets = <<>>
    /\ Len(results) = k - 1
    /\ emitted = ExpectedRecords(SubSeq(taken, 1, k - 1))
    /\ IsPrefix(stdout, AsLines(emitted))
    /\ exitStatus # "zero"
C5_FailFastStep ==
  (TakenFailing /\ procPc' # procPc) =>
     \/ exitStatus' = "nonzero"
     \/ procPc = "parse" /\ ~ParseCIDR(cidr).err /\ procPc' = "transform"
C5_FailFast == []C5_FailFastState /\ [][C5_FailFastStep]_vars
C5_Witness ==
  /\ exitStatus = "nonzero"
  /\ fatalBy = "transformation"
  /\ Len(taken) = 2
  /\ stdout # <<>>
  /\ mainPc \in {"sendStdin", "sendFile"}

(* C6: source order.  Descriptors are pushed in the order -cidr, stdin, file:
   no descriptor of a later source is pushed before one of an earlier source,
   the lines of one source are pushed in their read order (line 1, 2, ...),
   stdin is read only when it is a pipe, and main is in a later source only
   when the scan loop of stdin has run to its end. *)
Rank(src) == CASE src = "cidr" -> 1 [] src = "stdin" -> 2 [] src = "file" -> 3
C6_SourceOrder ==
  /\ \A i, j \in 1..Len(pushed) : i < j => Rank(pushed[i].src) <= Rank(pushed[j].src)
  /\ \A i \in 1..Len(pushed) :
       /\ pushed[i].n = 1 + Cardinality({j \in 1..(i - 1) : pushed[j].src = pushed[i].src})
       /\ pushed[i].src = "cidr" => options.Cidr # "" /\ pushed[i].text = options.Cidr /\ i = 1
       /\ pushed[i].src = "stdin" => hasStdin
       /\ pushed[i].src = "file" => options.FileCidr # "" /\ env.fileOpens
  /\ options.Cidr # "" /\ pushed # <<>> => pushed[1].src = "cidr"
  /\ hasStdin /\ (mainPc \in {"file", "scanFile", "sendFile", "close", "wait", "returned"}
                   \/ \E i \in 1..Len(pushed) : pushed[i].src = "file")
       => "stdin" \in drained
  /\ mainPc \in {"close", "wait", "returned"} /\ options.FileCidr # "" => "file" \in drained
C6_Witness ==
  /\ Len(pushed) = 2
  /\ pushed[1].src = "stdin"
  /\ pushed[2].src = "file"
  /\ mainPc = "close"

(* C7: an empty input line is skipped: no error is raised for it and
   processing continues.  Stated as: the process never ends in the Fatalf of
   the net.ParseCIDR check while the descriptor in hand is the empty line. *)
C7_EmptyLineSkipped ==
  ~(exitStatus = "nonzero" /\ fatalBy = "net.ParseCIDR" /\ cidr = "")

(* C8: no empty record is ever written, whatever the input lines were (empty
   ones included) and whatever texts reach the sink (the empty text
   included): neither the primary output nor the output file ever holds an
   empty line, and what is written are the non-empty texts received, in
   order.  Checked over the pipeline and over the pipeline with process
   replaced by a stage that forwards any texts. *)
NonEmptyLines(rs) == AsLines(SelectSeq(rs, LAMBDA r : r # ""))
C8_NoEmptyRecord ==
  /\ \A i \in 1..Len(stdout) : stdout[i] \notin {"", "\n"}
  /\ \A i \in 1..Len(fileOut) : fileOut[i] \notin {"", "\n"}
  /\ IsPrefix(stdout, NonEmptyLines(consumed))
  /\ IsPrefix(fileOut, stdout)
  /\ sinkPc \in {"recv", "done", "returned"} =>
       /\ stdout = NonEmptyLines(consumed)
       /\ options.Output # "" => fileOut = stdout
C8_Witness ==
  /\ consumed = <<"10.0.0.0", "", "10.0.0.0/31">>
  /\ sinkPc = "recv"
  /\ Len(stdout) = 2
  /\ Len(fileOut) = 2

(* C9, as claimed: the records written when the process exits are a function of
   the input and the configuration alone, fatal inputs included: all results
   of the descriptors before the first failing one (nothing when the
   configuration is rejected or the output file cannot be created). *)
DeterministicOutput ==
  IF ConfigError(options) \/ ~env.createOk
    THEN <<>>
    ELSE AsLines(ExpectedRecords(BeforeFailure(Texts(pushed))))
C9_Original == exitStatus # "none" => stdout = DeterministicOutput

(* C9, amended: the output at exit is fixed by input and configuration in the
   runs that end without a fatal error of the Aggregator or the Transform
   Stage: with status 0 the primary output is exactly the concatenation of
   all results and the output file, if configured, equals it; when the
   output file cannot be created nothing is ever written.  After any other
   fatal exit the output is only a prefix of it. *)
C9_Amended ==
  /\ ~env.createOk => stdout = <<>> /\ fileOut = <<>>
  /\ exitStatus = "zero" =>
       /\ stdout = DeterministicOutput
       /\ fileOut = (IF options.Output # "" THEN stdout ELSE <<>>)
  /\ exitStatus = "nonzero" => IsPrefix(stdout, DeterministicOutput)
C9_Witness ==
  /\ exitStatus = "zero"
  /\ options.Output # ""
  /\ Len(pushed) >= 2
  /\ Len(fileOut) >= 3

(* C10, as claimed: the channels are unbounded, so a push never waits for the
   consumer: whenever main is at a send on chancidr, or process at a send on
   outputchan, that send can complete at once. *)
C10_Original ==
  /\ Running /\ MainHolds => ENABLED MainStep
  /\ Running /\ procPc = "forward" => ENABLED ProcStep

(* C10, amended: the channels are unbuffered.  Nothing is ever queued in
   either channel: a push completes only in the step in which the consumer
   receives it, and a sender whose consumer is not at its receive is blocked.
   So the Aggregator is never ahead of the Transform Stage by more than the
   one descriptor it is pushing, nor the Transform Stage ahead of the
   Output Sink by more than the one record it is pushing. *)
C10_Amended ==
  /\ chancidr.buf = <<>> /\ outputchan.buf = <<>>
  /\ Len(pushed) = Len(taken)
  /\ Len(emitted) = Len(consumed)
  /\ Running /\ MainHolds /\ procPc # "recv" => ~ENABLED MainStep
  /\ Running /\ procPc = "forward" /\ sinkPc # "recv" => ~ENABLED ProcStep
C10_Witness ==
  /\ Running
  /\ MainHolds
  /\ Len(pushed) >= 1
  /\ procPc = "forward"
  /\ sinkPc = "tee"
  /\ ~ENABLED MainStep

-----------------------------------------------------------------------------
\* The mode the configuration selects, by the stated priority: a parameter
\* that is zero or negative is not configured.
SelectedMode(opts) ==
  IF opts.Slices > 0 THEN "equal-split"
  ELSE IF opts.HostCount > 0 THEN "host-capacity-split"
  ELSE "full-enumeration"

\* The outcome of the transformation of mode m on descriptor c.
ApplyMode(m, opts, c) ==
  CASE m = "equal-split" ->
         LET r == SplitN(c, opts.Slices) IN [err |-> r.err, out |-> SubnetStrings(r.out)]
    [] m = "host-capacity-split" ->
         LET r == SplitByNumber(c, opts.HostCount) IN [err |-> r.err, out |-> SubnetStrings(r.out)]
    [] m = "full-enumeration" -> IPAddresses(c)

(* C11: mode selection.  One transformation runs per descriptor that passed
   the parse check, and it is the one the configuration selects (equal-split
   if Slices > 0, else host-capacity-split if HostCount > 0, else
   full-enumeration; zero and negative count as not configured), the same
   for every descriptor of the run: every recorded result is that mode's
   result on the descriptor taken, and the process ends in the Fatalf of a
   transformation only when that mode fails on the descriptor in hand. *)
C11_ModeSelection ==
  /\ Len(results) = Len(taken) - (IF procPc \in {"parse", "transform"} THEN 1 ELSE 0)
  /\ \A k \in 1..Len(results) :
       LET r == ApplyMode(SelectedMode(options), options, taken[k])
       IN  ~r.err /\ results[k] = r.out
  /\ fatalBy = "transformation" =>
       /\ ~ParseCIDR(cidr).err
       /\ ApplyMode(SelectedMode(options), options, cidr).err
C11_Witness ==
  /\ exitStatus = "zero"
  /\ options.Slices < 0
  /\ options.HostCount > 0
  /\ Len(results) = 2
  /\ results[1] = <<"10.0.0.0/31">>


-----------------------------------------------------------------------------
\* The configuration errors, as the specification lists them: no input source
\* supplied; both split modes requested; both -cidr and -l supplied.
ConfigurationRejected ==
  \/ options.Cidr = "" /\ ~env.stdinPipe /\ options.FileCidr = ""
  \/ options.Slices > 0 /\ options.HostCount > 0
  \/ options.Cidr # "" /\ options.FileCidr # ""

\* Nothing of the pipeline has happened: no unit was started, no line read,
\* nothing sent on either channel, nothing written.
PipelineUntouched ==
  /\ procPc = "notStarted" /\ sinkPc = "notStarted" /\ wg = 0
  /\ scanned = 0 /\ drained = {}
  /\ pushed = <<>> /\ taken = <<>> /\ emitted = <<>> /\ consumed = <<>>
  /\ chancidr = [buf |-> <<>>, closed |-> FALSE]
  /\ outputchan = [buf |-> <<>>, closed |-> FALSE]
  /\ stdout = <<>> /\ fileOut = <<>>

(* C12: a configuration error ends the process with a non-zero status before
   the pipeline starts.  With such a configuration main never gets past
   validateOptions: in every state no unit has been started, no line read,
   nothing pushed and nothing written; until the exit main can step, and the
   only steps the process ever takes are the entry into validateOptions and
   the exit with a non-zero status by its Fatalf.  (In a run with -version
   validateOptions is not reached: the pipeline is untouched all the same,
   and the exit is that of ParseOptions.) *)
C12_State ==
  /\ ConfigurationRejected =>
       /\ PipelineUntouched
       /\ mainPc \in {"parseOptions", "validate"}
       /\ exitStatus = "nonzero" => fatalBy = "validateOptions" /\ mainPc = "validate"
       /\ ~options.Version =>
            /\ exitStatus # "zero"
            /\ exitStatus = "none" => ENABLED MainStep
       /\ options.Version => VersionRun
  /\ fatalBy = "validateOptions" => ConfigurationRejected /\ ~options.Version
C12_Step ==
  ConfigurationRejected /\ ~options.Version =>
    /\ procPc' = procPc /\ sinkPc' = sinkPc
    /\ \/ mainPc = "parseOptions" /\ mainPc' = "validate" /\ exitStatus' = "none"
       \/ /\ mainPc = "validate" /\ mainPc' = mainPc
          /\ exitStatus = "none" /\ exitStatus' = "nonzero" /\ fatalBy' = "validateOptions"
C12_ConfigErrorFatal == []C12_State /\ [][C12_Step]_vars
C12_Witness ==
  /\ exitStatus = "nonzero"
  /\ fatalBy = "validateOptions"
  /\ options.Cidr # "" /\ options.FileCidr # ""
  /\ env.stdinPipe
  /\ PipelineUntouched


-----------------------------------------------------------------------------
(* C13: input errors are fatal.  A file source that does not open, or a read
   error that ends the reading of a source, ends the process with a non-zero
   status where it is detected: main then never closes chancidr and the
   process never exits with status 0. *)
OpenFailureFatal ==
  options.FileCidr # "" /\ ~env.fileOpens =>
    /\ mainPc \notin {"scanFile", "sendFile", "close", "wait", "returned"}
    /\ ~chancidr.closed
    /\ exitStatus # "zero"
    /\ "file" \notin drained
ReadErrorFatal ==
  readErr => ~chancidr.closed /\ exitStatus # "zero"
C13_InputErrorFatal == OpenFailureFatal /\ ReadErrorFatal


-----------------------------------------------------------------------------
\* An output file is configured and os.Create fails on it.
OutputFileUncreatable == options.Output # "" /\ ~env.createOk

(* C14: when the configured output file cannot be created, the Output Sink
   detects it before it receives anything: in every state of such a run the
   sink has received no record and nothing is on the primary output or in
   the file, whatever main and process have done by then; the process never
   exits with status 0 and does end with a non-zero status (but for a run
   with -version, which exits in ParseOptions before output exists); and
   the Fatalf of os.Create is reached only from the sink's first step. *)
C14_State ==
  /\ OutputFileUncreatable =>
       /\ sinkPc \in {"notStarted", "create"}
       /\ consumed = <<>> /\ o = ""
       /\ stdout = <<>> /\ fileOut = <<>>
       /\ ~options.Version => exitStatus # "zero"
       /\ options.Version => VersionRun
  /\ fatalBy = "os.Create" => OutputFileUncreatable /\ sinkPc = "create"
C14_CreateFailureFatal ==
  /\ []C14_State
  /\ (OutputFileUncreatable /\ ~options.Version ~> exitStatus = "nonzero")
C14_Witness ==
  /\ exitStatus = "nonzero"
  /\ fatalBy = "os.Create"
  /\ procPc = "forward"
  /\ Len(subnets) = 2
  /\ mainPc \in {"sendStdin", "sendFile"}
  /\ stdout = <<>>


-----------------------------------------------------------------------------
\* Every source that applies to the run has been read to its end and all that
\* was read has been pushed.
AllSourcesDrained ==
  /\ env.stdinPipe => "stdin" \in drained
  /\ options.FileCidr # "" => "file" \in drained
  /\ ~MainHolds
  /\ Len(pushed) = scanned + (IF options.Cidr # "" THEN 1 ELSE 0)
  /\ options.Cidr # "" => pushed[1] = [text |-> options.Cidr, src |-> "cidr", n |-> 1]

(* C15: chancidr is closed exactly once, by main alone, after every
   applicable source is drained and everything read is pushed.  It is closed
   exactly when main is past line 138, and main is never at line 138 with
   the channel already closed; the step that closes it is main's step from
   line 138 to wg.Wait() and is no exit; once closed it stays closed and
   nothing more is pushed; and no step that ends the process with a non-zero
   status closes it, so after a fatal exit of main itself (validateOptions,
   os.Open) it is open. *)
C15_State ==
  /\ chancidr.closed <=> mainPc \in {"wait", "returned"}
  /\ chancidr.closed => AllSourcesDrained
  /\ fatalBy \in {"validateOptions", "os.Open"} => ~chancidr.closed
C15_Step ==
  /\ chancidr'.closed # chancidr.closed =>
       /\ ~chancidr.closed /\ chancidr'.closed
       /\ mainPc = "close" /\ mainPc' = "wait"
       /\ procPc' = procPc /\ sinkPc' = sinkPc
       /\ exitStatus' = "none"
       /\ pushed' = pushed
  /\ chancidr.closed => pushed' = pushed /\ chancidr'.buf = <<>>
  /\ exitStatus' = "nonzero" => chancidr' = chancidr
C15_ClosedOnce == []C15_State /\ [][C15_Step]_vars
C15_Witness ==
  /\ chancidr.closed
  /\ mainPc = "wait"
  /\ Len(pushed) = 2
  /\ pushed[1].src = "stdin" /\ pushed[2].src = "file"
  /\ procPc = "forward"


-----------------------------------------------------------------------------
(* C16: outputchan is closed exactly once, by process alone, after chancidr
   was closed and emptied and every record of every descriptor was
   forwarded.  It is closed exactly when process is past line 177, and
   process is never at line 177 with the channel already closed; the step
   that closes it is process's own and is no exit; at that point process has
   taken all that main pushed and forwarded the whole result of each
   descriptor; nothing is forwarded afterwards; and output leaves its range
   loop, and returns, only with outputchan closed and everything forwarded
   received. *)
C16_State ==
  /\ outputchan.closed <=> procPc \in {"done", "returned"}
  /\ outputchan.closed =>
       /\ chancidr.closed /\ chancidr.buf = <<>>
       /\ taken = Texts(pushed)
       /\ \A k \in 1..Len(taken) : ~Fails(taken[k])
       /\ subnets = <<>>
       /\ emitted = ExpectedRecords(taken)
  /\ sinkPc \in {"done", "returned"} =>
       outputchan.closed /\ outputchan.buf = <<>> /\ consumed = emitted
C16_Step ==
  /\ outputchan'.closed # outputchan.closed =>
       /\ ~outputchan.closed /\ outputchan'.closed
       /\ procPc = "close" /\ procPc' = "done"
       /\ mainPc' = mainPc /\ sinkPc' = sinkPc
       /\ exitStatus' = "none"
       /\ emitted' = emitted
  /\ outputchan.closed => emitted' = emitted /\ outputchan'.buf = <<>>
  /\ exitStatus' = "nonzero" => outputchan' = outputchan
C16_ClosedOnce == []C16_State /\ [][C16_Step]_vars
C16_Witness ==
  /\ outputchan.closed
  /\ sinkPc = "returned"
  /\ procPc = "returned"
  /\ exitStatus = "none"
  /\ Len(taken) = 2
  /\ Len(emitted) >= 3


-----------------------------------------------------------------------------
(* C17: the tee.  With an output file configured, in every state the lines
   appended to the file are a prefix of the lines on the primary output and
   at most one line behind (behind exactly while the sink is between the two
   writes of one record); each line is one received record, in the order
   received, none merged; and when the process exits with status 0 the two
   are equal.  Without an output file nothing is ever appended. *)
C17_Tee ==
  /\ options.Output # "" =>
       /\ IsPrefix(fileOut, stdout)
       /\ Len(stdout) - Len(fileOut) <= 1
       /\ Len(stdout) - Len(fileOut) = 1 <=> sinkPc = "tee"
       /\ exitStatus = "zero" => fileOut = stdout
  /\ options.Output = "" => fileOut = <<>> /\ sinkPc # "tee"
  /\ \A k \in 1..Len(stdout) : stdout[k] = consumed[k] \o "\n"
  /\ Len(consumed) - Len(stdout) <= 1
C17_Witness ==
  /\ exitStatus = "nonzero"
  /\ options.Output # ""
  /\ sinkPc = "tee"
  /\ Len(stdout) = 2
  /\ Len(fileOut) = 1
  /\ stdout[1] # stdout[2]


-----------------------------------------------------------------------------
(* C18: no deadlock.  In every state in which the process has not exited,
   main, process or output can take a step; a unit at a send or a receive
   never has a peer that is gone: main sends only while process is still in
   its loop, process sends only while output is still in its loop, process
   waits to receive only while main has not returned, and output waits to
   receive from a returned process only on the closed channel, which lets it
   leave; main waits in wg.Wait() only for units that are still running.
   So every fair run, on valid and on fatal inputs alike, ends in an exit. *)
C18_State ==
  Running =>
    /\ ENABLED MainStep \/ ENABLED ProcStep \/ ENABLED SinkStep
    /\ MainHolds => procPc \in {"notStarted", "recv", "parse", "transform", "forward"}
    /\ procPc = "forward" => sinkPc \in {"create", "recv", "write", "tee"}
    /\ procPc = "recv" => mainPc # "returned" /\ (~chancidr.closed => ENABLED MainStep)
    /\ sinkPc = "recv" /\ procPc \in {"done", "returned"} => outputchan.closed /\ ENABLED SinkStep
    /\ mainPc = "wait" /\ ~ENABLED MainStep => procPc # "returned" \/ sinkPc # "returned"
C18_NoDeadlock == []C18_State /\ <>(exitStatus # "none")
C18_Witness ==
  /\ Running
  /\ mainPc \in {"sendStdin", "sendFile"} /\ Fails(cur)
  /\ procPc = "forward"
  /\ sinkPc = "write"
  /\ ~ENABLED MainStep /\ ~ENABLED ProcStep /\ ENABLED SinkStep


-----------------------------------------------------------------------------
\* The records of the first n transformation calls, in order.
RecordsOfFirst(n) == Concat(SubSeq(results, 1, n))

(* C19: rendezvous backpressure.  process has taken descriptor k+1 only when
   output has received every record of descriptors 1..k; a push of main
   completes only in a step in which process, done with everything it took
   before, receives it; and at every moment at most one descriptor is taken
   but not yet forwarded in full and at most one record is received but not
   yet written (to the primary output and, if configured, the file). *)
C19_State ==
  /\ Len(taken) >= 1 =>
       /\ Len(results) >= Len(taken) - 1
       /\ IsPrefix(RecordsOfFirst(Len(taken) - 1), consumed)
  /\ Len(pushed) = Len(taken)
  /\ Len(taken) - Len(results) <= 1
  /\ Len(results) >= 1 => IsPrefix(RecordsOfFirst(Len(results) - 1), emitted)
  /\ (Len(taken) > Len(results) /\ Len(results) >= 1) => emitted = RecordsOfFirst(Len(results))
  /\ Len(emitted) = Len(consumed)
  /\ Len(consumed) - Len(stdout) <= 1
  /\ options.Output # "" => Len(consumed) - Len(fileOut) <= 1
C19_Step ==
  pushed' # pushed =>
    /\ procPc = "recv" /\ procPc' = "parse"
    /\ subnets = <<>>
    /\ Len(results) = Len(taken)
    /\ consumed = RecordsOfFirst(Len(taken))
    /\ taken' = Append(taken, pushed'[Len(pushed')].text)
    /\ cidr' = pushed'[Len(pushed')].text
C19_Backpressure == []C19_State /\ [][C19_Step]_vars
C19_Witness ==
  /\ Running
  /\ Len(taken) = 2
  /\ Len(results) = 1 /\ Len(results[1]) = 2
  /\ consumed = results[1]
  /\ Len(stdout) = 1
  /\ mainPc \in {"sendStdin", "sendFile"}
  /\ ~ENABLED MainStep


-----------------------------------------------------------------------------
\* The process was ended by process on the descriptor it had in hand.
TransformStageFatal ==
  exitStatus = "nonzero" /\ fatalBy \in {"net.ParseCIDR", "transformation"}

\* The lines of the non-empty records of the descriptors pushed before the k-th.
LinesBefore(k) ==
  AsLines(SelectSeq(ExpectedRecords(SubSeq(Texts(pushed), 1, k - 1)), LAMBDA r : r # ""))

(* C20: bounded loss.  When process ends the run on descriptor k (the k-th
   pushed; it fails to parse or to transform), the primary output at exit is
   the lines of all records of descriptors 1..k-1, in order, or those
   without the very last one: at most one record already produced is
   missing, and nothing of descriptor k or a later one is there. *)
C20_BoundedLoss ==
  TransformStageFatal =>
    LET k == Len(taken) IN
    /\ k >= 1 /\ k = Len(pushed)
    /\ cidr = pushed[k].text /\ Fails(cidr)
    /\ IsPrefix(stdout, LinesBefore(k))
    /\ Len(LinesBefore(k)) - Len(stdout) <= 1
    /\ Len(LinesBefore(k)) - Len(stdout) = 1 <=> sinkPc = "write"
C20_Witness ==
  /\ TransformStageFatal
  /\ Len(taken) = 2
  /\ Len(LinesBefore(2)) = 2
  /\ Len(stdout) = 1
  /\ mainPc \in {"sendStdin", "sendFile", "scanStdin", "scanFile"}

=============================================================================
